---- MODULE Spec2Model ----
(***************************************************************************)
(* Model of rust/apps/cosmos/src/transaction/overview.rs: the conversion   *)
(* of a decoded list of Cosmos messages (a serde_json Value) into the      *)
(* ordered list of overview records shown before signing.                  *)
(*                                                                         *)
(* CosmosTxOverview::from_value is modelled as a state machine that walks  *)
(* the message array one element per step; the per-kind conversions        *)
(* (TryFrom impls), the serde decode of each value payload, the Serialize  *)
(* derive of each overview struct and the helpers they call are operators. *)
(***************************************************************************)
EXTENDS Integers, Sequences, FiniteSets, TLC

VARIABLES
    msgs,     \* the argument of from_value: a JSON value
    pc,       \* "start" | "loop" | "done": position inside from_value
    idx,      \* number of elements of msg_arr the for loop has consumed
    kind,     \* the local Vec<MsgOverview> being built
    result    \* what from_value returned: NoResult until it returns

vars == <<msgs, pc, idx, kind, result>>

\* Longest message array drawn from the core elements, and from all elements.
MaxMsgs == 3
MaxWide == 2

(***************************************************************************)
(* Result and Option values.                                               *)
(***************************************************************************)
Ok(v) == [ok |-> TRUE, v |-> v]
Err(e) == [ok |-> FALSE, e |-> e]
Some(v) == [some |-> TRUE, v |-> v]
None == [some |-> FALSE]
NoResult == [returned |-> FALSE]

(***************************************************************************)
(* serde_json::Value.  An object carries a function from keys to values.   *)
(***************************************************************************)
JNull == [t |-> "null"]
JStr(s) == [t |-> "str", s |-> s]
JNum(n) == [t |-> "num", n |-> n]
JArr(a) == [t |-> "arr", a |-> a]
JObj(o) == [t |-> "obj", o |-> o]

\* Value's Index<&str>: Null when the value is no object or lacks the key.
JIndex(v, key) ==
    IF v.t = "obj" /\ key \in DOMAIN v.o THEN v.o[key] ELSE JNull

\* Value::as_str
AsStr(v) == IF v.t = "str" THEN Some(v.s) ELSE None

\* Value::as_array
AsArray(v) == IF v.t = "arr" THEN Some(v.a) ELSE None

(***************************************************************************)
(* Type tag detection (crate::transaction::utils::detect_msg_type): the    *)
(* last segment of the tag once split on "/" and "."; an absent tag is     *)
(* treated as the empty tag.                                               *)
(***************************************************************************)
LastSegment(tag) ==
    CASE tag = "cosmos-sdk/MsgSend" -> "MsgSend"
      [] tag = "/cosmos.bank.v1beta1.MsgSend" -> "MsgSend"
      [] tag = "cosmos-sdk/MsgDelegate" -> "MsgDelegate"
      [] tag = "cosmos-sdk/MsgUndelegate" -> "MsgUndelegate"
      [] tag = "cosmos-sdk/MsgBeginRedelegate" -> "MsgBeginRedelegate"
      [] tag = "cosmos-sdk/MsgWithdrawDelegatorReward" -> "MsgWithdrawDelegatorReward"
      [] tag = "cosmos-sdk/MsgWithdrawDelegationReward" -> "MsgWithdrawDelegationReward"
      [] tag = "cosmos-sdk/MsgTransfer" -> "MsgTransfer"
      [] tag = "cosmos-sdk/MsgVote" -> "MsgVote"
      [] tag = "sign/MsgSignData" -> "MsgSignData"
      [] tag = "cosmos-sdk/MsgSubmitProposal" -> "MsgSubmitProposal"
      [] OTHER -> tag

detect_msg_type(msg_type) ==
    IF msg_type.some THEN LastSegment(msg_type.v) ELSE ""

(***************************************************************************)
(* serde decode of a value payload into a message struct.  A field is      *)
(* described by its name and its Rust type; String, i32 and Vec<Coin>      *)
(* fields are required, Option<Coin> fields may be absent or null.         *)
(***************************************************************************)
IsCoinJson(v) ==
    /\ v.t = "obj"
    /\ {"denom", "amount"} \subseteq DOMAIN v.o
    /\ v.o["denom"].t = "str"
    /\ v.o["amount"].t = "str"

CoinOf(v) == [denom |-> v.o["denom"].s, amount |-> v.o["amount"].s]

\* Whether JSON value v is acceptable for a field of Rust type ty.
FieldTypeOk(ty, v) ==
    CASE ty = "String" -> v.t = "str"
      [] ty = "int" -> v.t = "num"
      [] ty = "VecCoin" -> v.t = "arr" /\ \A i \in 1..Len(v.a) : IsCoinJson(v.a[i])
      [] ty = "OptCoin" -> v.t = "null" \/ IsCoinJson(v)

\* The decoded value of a field of type ty (v is JNull for an absent one).
FieldValue(ty, v) ==
    CASE ty = "String" -> v.s
      [] ty = "int" -> v.n
      [] ty = "VecCoin" -> [i \in 1..Len(v.a) |-> CoinOf(v.a[i])]
      [] ty = "OptCoin" -> IF v.t = "null" THEN None ELSE Some(CoinOf(v))

\* The fields of each message struct, in declaration order.
StructFields(struct) ==
    CASE struct = "MsgSend" ->
            <<[name |-> "from_address", ty |-> "String"],
              [name |-> "to_address", ty |-> "String"],
              [name |-> "amount", ty |-> "VecCoin"]>>
      [] struct = "MsgDelegate" ->
            <<[name |-> "delegator_address", ty |-> "String"],
              [name |-> "validator_address", ty |-> "String"],
              [name |-> "amount", ty |-> "OptCoin"]>>
      [] struct = "MsgUndelegate" ->
            <<[name |-> "delegator_address", ty |-> "String"],
              [name |-> "validator_address", ty |-> "String"],
              [name |-> "amount", ty |-> "OptCoin"]>>
      [] struct = "MsgBeginRedelegate" ->
            <<[name |-> "delegator_address", ty |-> "String"],
              [name |-> "validator_src_address", ty |-> "String"],
              [name |-> "validator_dst_address", ty |-> "String"],
              [name |-> "amount", ty |-> "OptCoin"]>>
      [] struct = "MsgWithdrawDelegatorReward" ->
            <<[name |-> "delegator_address", ty |-> "String"],
              [name |-> "validator_address", ty |-> "String"]>>
      [] struct = "MsgTransfer" ->
            <<[name |-> "sender", ty |-> "String"],
              [name |-> "receiver", ty |-> "String"],
              [name |-> "token", ty |-> "OptCoin"]>>
      [] struct = "MsgVote" ->
            <<[name |-> "proposal_id", ty |-> "int"],
              [name |-> "voter", ty |-> "String"],
              [name |-> "option", ty |-> "int"]>>

\* struct MsgSignData { data: String, signer: String }
MsgSignDataFields ==
    <<[name |-> "data", ty |-> "String"],
      [name |-> "signer", ty |-> "String"]>>

\* Whether field f of the payload stops the decode, and why (None: it is fine).
FieldDefect(f, value) ==
    IF f.name \notin DOMAIN value.o
    THEN IF f.ty = "OptCoin" THEN None ELSE Some("missing field " \o f.name)
    ELSE IF FieldTypeOk(f.ty, value.o[f.name])
         THEN None
         ELSE Some("invalid type for " \o f.name)

\* serde_json::from_value::<T>(value) for a struct with the given fields:
\* Err on a payload that is no object or has a missing or mistyped required
\* field, else the struct as a record of its decoded fields.
DecodeStruct(fields, value) ==
    IF value.t # "obj"
    THEN Err("invalid type: expected struct")
    ELSE LET bad == {i \in 1..Len(fields) : FieldDefect(fields[i], value).some}
         IN  IF bad # {}
             THEN LET first == CHOOSE i \in bad : \A j \in bad : i <= j
                  IN  Err(FieldDefect(fields[first], value).v)
             ELSE Ok([n \in {fields[i].name : i \in 1..Len(fields)} |->
                        LET f == CHOOSE g \in {fields[i] : i \in 1..Len(fields)} : g.name = n
                        IN  FieldValue(f.ty, JIndex(value, n))])

from_value_msg(struct, value) == DecodeStruct(StructFields(struct), value)

from_value_MsgSignData(value) == DecodeStruct(MsgSignDataFields, value)

(***************************************************************************)
(* Amount rendering (crate::proto_wrapper::fee).  format_coin renders the  *)
(* base denomination uatom scaled to ATOM when its amount is numeric and   *)
(* any other denomination as "<amount> <denom>"; format_amount joins the   *)
(* rendered coins of a list.                                               *)
(***************************************************************************)
\* amount / 10^6 for the uatom amounts the inputs use; others do not parse.
AtomScaled == ("1000000" :> "1") @@ ("2500000" :> "2.5")

format_coin(coin) ==
    IF coin.denom = "uatom"
    THEN IF coin.amount \in DOMAIN AtomScaled
         THEN Some(AtomScaled[coin.amount] \o " ATOM")
         ELSE None
    ELSE Some(coin.amount \o " " \o coin.denom)

RECURSIVE JoinCoins(_)
JoinCoins(coins) ==
    IF coins = <<>> THEN ""
    ELSE LET head == format_coin(coins[1])
             text == IF head.some THEN head.v ELSE ""
         IN  IF Len(coins) = 1 THEN text
             ELSE text \o ", " \o JoinCoins(Tail(coins))

format_amount(coins) == JoinCoins(coins)

(***************************************************************************)
(* Strings whose bytes matter (the SignData payload and what it decodes    *)
(* to) are looked up in StrTable, the UTF-8 bytes of each such string.     *)
(***************************************************************************)
StrTable ==
    ("aGVsbG8=" :> <<97, 71, 86, 115, 98, 71, 56, 61>>) @@
    ("hello" :> <<104, 101, 108, 108, 111>>) @@
    ("hi!!" :> <<104, 105, 33, 33>>) @@
    ("/w==" :> <<47, 119, 61, 61>>) @@
    ("5L2g5aW9" :> <<53, 76, 50, 103, 53, 97, 87, 57>>) @@
    ("<U+4F60><U+597D>" :> <<228, 189, 160, 229, 165, 189>>)

\* str::as_bytes
as_bytes(s) == StrTable[s]

\* The String holding the given (valid UTF-8) bytes.
StringOf(bytes) == CHOOSE s \in DOMAIN StrTable : StrTable[s] = bytes

\* The 6-bit value of a base64 symbol of the standard alphabet, -1 for none.
B64Val(b) ==
    CASE b >= 65 /\ b <= 90 -> b - 65
      [] b >= 97 /\ b <= 122 -> b - 71
      [] b >= 48 /\ b <= 57 -> b + 4
      [] b = 43 -> 62
      [] b = 47 -> 63
      [] OTHER -> -1

\* base64::decode with the standard alphabet and canonical "=" padding:
\* Err on a symbol outside the alphabet, a length that is not a multiple
\* of four, or non-zero trailing bits; else the decoded bytes.
base64_decode(input) ==
    LET s == as_bytes(input)
        n == Len(s)
        pad == IF n >= 1 /\ s[n] = 61
               THEN IF n >= 2 /\ s[n - 1] = 61 THEN 2 ELSE 1
               ELSE 0
        m == n - pad
        sym == [i \in 1..m |-> B64Val(s[i])]
        outLen == (m * 6) \div 8
        spare == IF pad = 2 THEN 16 ELSE IF pad = 1 THEN 4 ELSE 1
        byteAt(k) ==
            LET q == ((8 * (k - 1)) \div 6) + 1
                r == (8 * (k - 1)) % 6
                two == sym[q] * 64 + sym[q + 1]
            IN  IF r = 0 THEN (two \div 16) % 256
                ELSE IF r = 2 THEN (two \div 4) % 256
                ELSE two % 256
    IN  IF n % 4 # 0 \/ (\E i \in 1..m : sym[i] < 0)
        THEN Err("base64 decode error")
        ELSE IF m > 0 /\ sym[m] % spare # 0
        THEN Err("base64 decode error")
        ELSE Ok([k \in 1..outLen |-> byteAt(k)])

\* Whether b is a UTF-8 continuation byte.
IsCont(b) == b >= 128 /\ b <= 191

\* The code points of a byte string, Err when it is not valid UTF-8.
RECURSIVE Utf8Decode(_)
Utf8Decode(b) ==
    IF b = <<>> THEN Ok(<<>>)
    ELSE LET c == b[1]
             n == CASE c < 128 -> 1
                    [] c >= 194 /\ c <= 223 -> 2
                    [] c >= 224 /\ c <= 239 -> 3
                    [] c >= 240 /\ c <= 244 -> 4
                    [] OTHER -> 0
         IN  IF n = 0 \/ Len(b) < n \/ (\E i \in 2..n : ~IsCont(b[i]))
             THEN Err("invalid utf-8")
             ELSE LET cp == CASE n = 1 -> c
                              [] n = 2 -> (c - 192) * 64 + (b[2] - 128)
                              [] n = 3 -> (c - 224) * 4096 + (b[2] - 128) * 64
                                          + (b[3] - 128)
                              [] n = 4 -> (c - 240) * 262144 + (b[2] - 128) * 4096
                                          + (b[3] - 128) * 64 + (b[4] - 128)
                      legal == CASE n = 3 -> cp >= 2048 /\ ~(cp >= 55296 /\ cp <= 57343)
                                 [] n = 4 -> cp >= 65536 /\ cp <= 1114111
                                 [] OTHER -> TRUE
                      rest == Utf8Decode(SubSeq(b, n + 1, Len(b)))
                  IN  IF ~legal THEN Err("invalid utf-8")
                      ELSE IF rest.ok THEN Ok(<<cp>> \o rest.v)
                      ELSE rest

\* String::from_utf8: the bytes as a String when they are valid UTF-8.
from_utf8(bytes) ==
    IF Utf8Decode(bytes).ok THEN Ok(StringOf(bytes)) ELSE Err("invalid utf-8")

\* app_utils::is_cjk: whether some character of the text is a CJK ideograph.
is_cjk(text) ==
    LET cps == Utf8Decode(as_bytes(text)).v
    IN  \E i \in 1..Len(cps) : cps[i] >= 19968 /\ cps[i] <= 40959

(***************************************************************************)
(* Chain resolver (super::utils): the chain id registered for the prefix   *)
(* of an address, cosmoshub-4 when none is; the network name of a chain    *)
(* id, absent when it has none.                                            *)
(***************************************************************************)
get_chain_id_by_address(address) ==
    CASE address = "cosmos1signer" -> "cosmoshub-4"
      [] address = "osmo1signer" -> "osmosis-1"
      [] address = "evmos1signer" -> "evmos_9001-2"
      [] OTHER -> "cosmoshub-4"

get_network_by_chain_id(chain_id) ==
    CASE chain_id = "cosmoshub-4" -> Some("Cosmos Hub")
      [] chain_id = "osmosis-1" -> Some("Osmosis")
      [] OTHER -> None

\* Option::unwrap_or
unwrap_or(opt, default) == IF opt.some THEN opt.v ELSE default

(***************************************************************************)
(* The per-kind conversions: impl TryFrom<Msg...> for Overview...          *)
(***************************************************************************)
OverviewSend_try_from(value) ==
    Ok([method |-> "Send",
        value |-> format_amount(value.amount),
        from |-> value.from_address,
        to |-> value.to_address])

OverviewDelegate_try_from(data) ==
    LET value == IF data.amount.some
                 THEN format_amount(<<data.amount.v>>)
                 ELSE ""
    IN  Ok([method |-> "Delegate",
            value |-> value,
            from |-> data.delegator_address,
            to |-> data.validator_address])

OverviewUndelegate_try_from(data) ==
    LET value == IF data.amount.some
                 THEN format_amount(<<data.amount.v>>)
                 ELSE ""
    IN  Ok([method |-> "Undelegate",
            value |-> value,
            to |-> data.delegator_address,
            validator |-> data.validator_address])

OverviewRedelegate_try_from(data) ==
    LET value == IF data.amount.some
                 THEN format_amount(<<data.amount.v>>)
                 ELSE ""
    IN  Ok([method |-> "Re-delegate",
            value |-> value,
            to |-> data.delegator_address,
            new_validator |-> data.validator_dst_address])

OverviewWithdrawReward_try_from(data) ==
    Ok([method |-> "Withdraw Reward",
        to |-> data.delegator_address,
        validator |-> data.validator_address])

OverviewTransfer_try_from(msg) ==
    LET coin == IF msg.token.some THEN format_coin(msg.token.v) ELSE None
    IN  Ok([method |-> "IBC Transfer",
            value |-> unwrap_or(coin, ""),
            from |-> msg.sender,
            to |-> msg.receiver])

\* VotedText with the default arm rendering UNSPECIFIED.
VotedTextDefaultUnspecified(option) ==
    CASE option = 1 -> "YES"
      [] option = 2 -> "ABSTAIN"
      [] option = 3 -> "NO"
      [] option = 4 -> "NO_WITH_VETO"
      [] OTHER -> "UNSPECIFIED"

\* The match on msg.option of OverviewVote::try_from.
VotedText(option) ==
    CASE option = 0 -> "UNSPECIFIED"
      [] option = 1 -> "YES"
      [] option = 2 -> "ABSTAIN"
      [] option = 3 -> "NO"
      [] option = 4 -> "NO_WITH_VETO"
      [] OTHER -> ""

OverviewVote_try_from(msg) ==
    Ok([method |-> "Vote",
        voter |-> msg.voter,
        proposal |-> "#" \o ToString(msg.proposal_id),
        voted |-> VotedText(msg.option)])

\* DecodeMessage without the CJK check.
DecodeMessageNoCjk(data) ==
    LET decoded == base64_decode(data)
    IN  IF decoded.ok
        THEN LET text == from_utf8(decoded.v)
             IN  IF text.ok THEN text.v ELSE data
        ELSE data

\* The match on base64::decode(&msg.data) of OverviewMessage::try_from.
DecodeMessage(data) ==
    LET decoded == base64_decode(data)
    IN  IF decoded.ok
        THEN LET text == from_utf8(decoded.v)
             IN  IF text.ok
                 THEN IF is_cjk(text.v) THEN data ELSE text.v
                 ELSE data
        ELSE data

\* OverviewMessage::try_from with a failed network lookup propagated.
OverviewMessage_try_from_strict(msg) ==
    LET message == DecodeMessage(msg.data)
        chain_id == get_chain_id_by_address(msg.signer)
        network == get_network_by_chain_id(chain_id)
    IN  IF network.some
        THEN Ok([method |-> "Message",
                 network |-> network.v,
                 signer |-> msg.signer,
                 message |-> message,
                 chain_id |-> chain_id])
        ELSE Err("InvalidData: unknown chain")

OverviewMessage_try_from(msg) ==
    LET message == DecodeMessage(msg.data)
        chain_id == get_chain_id_by_address(msg.signer)
    IN  Ok([method |-> "Message",
            network |-> unwrap_or(get_network_by_chain_id(chain_id), "Cosmos Hub"),
            signer |-> msg.signer,
            message |-> message,
            chain_id |-> chain_id])

\* enum MsgOverview: a variant wrapping its overview struct.
MsgOverview(variant, o) == [variant |-> variant, o |-> o]

(***************************************************************************)
(* #[derive(Serialize)] of each overview struct: the map from the renamed  *)
(* labels to the field texts, without the fields skip_serializing_if drops.*)
(***************************************************************************)
SerializeSend(o) ==
    ("Method" :> o.method) @@ ("Value" :> o.value) @@
    ("From" :> o.from) @@ ("To" :> o.to)

\* SerializeDelegate without skip_serializing_if on value.
SerializeDelegateNoSkip(o) ==
    ("Method" :> o.method) @@ ("From" :> o.from) @@ ("To" :> o.to) @@
    ("Value" :> o.value)

SerializeDelegate(o) ==
    LET rest == ("Method" :> o.method) @@ ("From" :> o.from) @@ ("To" :> o.to)
    IN  IF o.value = "" THEN rest ELSE rest @@ ("Value" :> o.value)

SerializeUndelegate(o) ==
    LET rest == ("Method" :> o.method) @@ ("To" :> o.to) @@
                ("Validator" :> o.validator)
    IN  IF o.value = "" THEN rest ELSE rest @@ ("Value" :> o.value)

SerializeRedelegate(o) ==
    LET rest == ("Method" :> o.method) @@ ("To" :> o.to) @@
                ("New Validator" :> o.new_validator)
    IN  IF o.value = "" THEN rest ELSE rest @@ ("Value" :> o.value)

SerializeWithdrawReward(o) ==
    ("Method" :> o.method) @@ ("To" :> o.to) @@ ("Validator" :> o.validator)

SerializeTransfer(o) ==
    LET rest == ("Method" :> o.method) @@ ("From" :> o.from) @@ ("To" :> o.to)
    IN  IF o.value = "" THEN rest ELSE rest @@ ("Value" :> o.value)

SerializeVote(o) ==
    ("Method" :> o.method) @@ ("Voter" :> o.voter) @@
    ("Proposal" :> o.proposal) @@ ("Voted" :> o.voted)

SerializeMessage(o) ==
    ("Method" :> o.method) @@ ("Network" :> o.network) @@
    ("Signer" :> o.signer) @@ ("Message" :> o.message) @@
    ("Chain ID" :> o.chain_id)

\* #[serde(untagged)] enum MsgOverview: the wrapped struct's own map.
Serialize(m) ==
    CASE m.variant = "Send" -> SerializeSend(m.o)
      [] m.variant = "Delegate" -> SerializeDelegate(m.o)
      [] m.variant = "Undelegate" -> SerializeUndelegate(m.o)
      [] m.variant = "Redelegate" -> SerializeRedelegate(m.o)
      [] m.variant = "WithdrawReward" -> SerializeWithdrawReward(m.o)
      [] m.variant = "Transfer" -> SerializeTransfer(m.o)
      [] m.variant = "Vote" -> SerializeVote(m.o)
      [] m.variant = "Message" -> SerializeMessage(m.o)

(***************************************************************************)
(* CosmosTxOverview::from_value: the body of the for loop.                 *)
(***************************************************************************)
\* What one pass of the loop body does with an element.
Push(m) == [act |-> "push", m |-> m]
Fail(e) == [act |-> "fail", e |-> e]
Skip == [act |-> "skip"]

\* kind.push(MsgOverview::V(OverviewV::try_from(msg)?));
Built(variant, built) ==
    IF built.ok THEN Push(MsgOverview(variant, built.v)) ELSE Fail(built.e)

\* The body of each arm of the match, applied to the element:
\* let msg = from_value::<T>(each["value"].clone())?; and the push.
ArmSend(each) ==
    LET msg == from_value_msg("MsgSend", JIndex(each, "value"))
    IN  IF msg.ok THEN Built("Send", OverviewSend_try_from(msg.v))
        ELSE Fail(msg.e)

ArmDelegate(each) ==
    LET msg == from_value_msg("MsgDelegate", JIndex(each, "value"))
    IN  IF msg.ok THEN Built("Delegate", OverviewDelegate_try_from(msg.v))
        ELSE Fail(msg.e)

ArmUndelegate(each) ==
    LET msg == from_value_msg("MsgUndelegate", JIndex(each, "value"))
    IN  IF msg.ok THEN Built("Undelegate", OverviewUndelegate_try_from(msg.v))
        ELSE Fail(msg.e)

ArmRedelegate(each) ==
    LET msg == from_value_msg("MsgBeginRedelegate", JIndex(each, "value"))
    IN  IF msg.ok THEN Built("Redelegate", OverviewRedelegate_try_from(msg.v))
        ELSE Fail(msg.e)

ArmWithdrawReward(each) ==
    LET msg == from_value_msg("MsgWithdrawDelegatorReward", JIndex(each, "value"))
    IN  IF msg.ok THEN Built("WithdrawReward", OverviewWithdrawReward_try_from(msg.v))
        ELSE Fail(msg.e)

ArmTransfer(each) ==
    LET msg == from_value_msg("MsgTransfer", JIndex(each, "value"))
    IN  IF msg.ok THEN Built("Transfer", OverviewTransfer_try_from(msg.v))
        ELSE Fail(msg.e)

ArmVote(each) ==
    LET msg == from_value_msg("MsgVote", JIndex(each, "value"))
    IN  IF msg.ok THEN Built("Vote", OverviewVote_try_from(msg.v))
        ELSE Fail(msg.e)

ArmMessage(each) ==
    LET msg == from_value_MsgSignData(JIndex(each, "value"))
    IN  IF msg.ok THEN Built("Message", OverviewMessage_try_from(msg.v))
        ELSE Fail(msg.e)

\* MatchArm without the default arm: an unknown type is taken for a Send.
MatchArmNoDefault(t) ==
    CASE t = "MsgSend" -> "Send"
      [] t = "MsgDelegate" -> "Delegate"
      [] t = "MsgUndelegate" -> "Undelegate"
      [] t = "MsgBeginRedelegate" -> "Redelegate"
      [] t = "MsgWithdrawDelegatorReward" \/ t = "MsgWithdrawDelegationReward"
            -> "WithdrawReward"
      [] t = "MsgTransfer" -> "Transfer"
      [] t = "MsgVote" -> "Vote"
      [] t = "MsgSignData" -> "Message"
      [] OTHER -> "Send"

\* MatchArm without the second spelling of the withdraw-reward tag.
MatchArmNoAlias(t) ==
    CASE t = "MsgSend" -> "Send"
      [] t = "MsgDelegate" -> "Delegate"
      [] t = "MsgUndelegate" -> "Undelegate"
      [] t = "MsgBeginRedelegate" -> "Redelegate"
      [] t = "MsgWithdrawDelegatorReward" -> "WithdrawReward"
      [] t = "MsgTransfer" -> "Transfer"
      [] t = "MsgVote" -> "Vote"
      [] t = "MsgSignData" -> "Message"
      [] OTHER -> "Skip"

\* The arm of the match that the detected type selects.
MatchArm(t) ==
    CASE t = "MsgSend" -> "Send"
      [] t = "MsgDelegate" -> "Delegate"
      [] t = "MsgUndelegate" -> "Undelegate"
      [] t = "MsgBeginRedelegate" -> "Redelegate"
      [] t = "MsgWithdrawDelegatorReward" \/ t = "MsgWithdrawDelegationReward"
            -> "WithdrawReward"
      [] t = "MsgTransfer" -> "Transfer"
      [] t = "MsgVote" -> "Vote"
      [] t = "MsgSignData" -> "Message"
      [] OTHER -> "Skip"

ArmOf(each) == MatchArm(detect_msg_type(AsStr(JIndex(each, "type"))))

\* One pass of the loop body: the selected arm applied to the element.
ProcessEach(each) ==
    LET arm == ArmOf(each)
    IN  CASE arm = "Send" -> ArmSend(each)
          [] arm = "Delegate" -> ArmDelegate(each)
          [] arm = "Undelegate" -> ArmUndelegate(each)
          [] arm = "Redelegate" -> ArmRedelegate(each)
          [] arm = "WithdrawReward" -> ArmWithdrawReward(each)
          [] arm = "Transfer" -> ArmTransfer(each)
          [] arm = "Vote" -> ArmVote(each)
          [] arm = "Message" -> ArmMessage(each)
          [] arm = "Skip" -> Skip

(***************************************************************************)
(* The inputs: JSON values as the upstream decoder hands them over.        *)
(***************************************************************************)
Coin(denom, amount) == JObj([denom |-> JStr(denom), amount |-> JStr(amount)])

Msg(tag, value) == JObj([type |-> JStr(tag), value |-> value])

SendValue(amount) ==
    JObj([from_address |-> JStr("cosmos1from"),
          to_address |-> JStr("cosmos1to"),
          amount |-> JArr(amount)])

StakeValue(amount) ==
    JObj([delegator_address |-> JStr("cosmos1delegator"),
          validator_address |-> JStr("cosmosvaloper1a"),
          amount |-> amount])

RedelegateValue(amount) ==
    JObj([delegator_address |-> JStr("cosmos1delegator"),
          validator_src_address |-> JStr("cosmosvaloper1a"),
          validator_dst_address |-> JStr("cosmosvaloper1b"),
          amount |-> amount])

RewardValue ==
    JObj([delegator_address |-> JStr("cosmos1delegator"),
          validator_address |-> JStr("cosmosvaloper1a")])

VoteValue(option) ==
    JObj([proposal_id |-> JNum(12), voter |-> JStr("cosmos1voter"),
          option |-> JNum(option)])

SignValue(data, signer) == JObj([data |-> JStr(data), signer |-> JStr(signer)])

\* Elements whose payload decodes.
GoodElements ==
    { Msg("cosmos-sdk/MsgSend", SendValue(<<Coin("uatom", "1000000")>>)),
      Msg("/cosmos.bank.v1beta1.MsgSend",
          SendValue(<<Coin("uatom", "2500000"), Coin("uosmo", "5")>>)),
      Msg("cosmos-sdk/MsgSend", SendValue(<<>>)),
      Msg("cosmos-sdk/MsgDelegate", StakeValue(Coin("uatom", "1000000"))),
      Msg("cosmos-sdk/MsgDelegate", StakeValue(JNull)),
      Msg("cosmos-sdk/MsgDelegate",
          JObj([delegator_address |-> JStr("cosmos1delegator"),
                validator_address |-> JStr("cosmosvaloper1a")])),
      Msg("cosmos-sdk/MsgUndelegate", StakeValue(Coin("uosmo", "5"))),
      Msg("cosmos-sdk/MsgUndelegate", StakeValue(JNull)),
      Msg("cosmos-sdk/MsgBeginRedelegate", RedelegateValue(Coin("uatom", "2500000"))),
      Msg("cosmos-sdk/MsgBeginRedelegate", RedelegateValue(JNull)),
      Msg("cosmos-sdk/MsgWithdrawDelegatorReward", RewardValue),
      Msg("cosmos-sdk/MsgWithdrawDelegationReward", RewardValue),
      Msg("cosmos-sdk/MsgTransfer",
          JObj([sender |-> JStr("cosmos1from"), receiver |-> JStr("osmo1to"),
                token |-> Coin("uosmo", "5")])),
      Msg("cosmos-sdk/MsgTransfer",
          JObj([sender |-> JStr("cosmos1from"), receiver |-> JStr("osmo1to")])),
      Msg("sign/MsgSignData", SignValue("aGVsbG8=", "cosmos1signer")),
      Msg("sign/MsgSignData", SignValue("hi!!", "cosmos1signer")),
      Msg("sign/MsgSignData", SignValue("/w==", "osmo1signer")),
      Msg("sign/MsgSignData", SignValue("5L2g5aW9", "cosmos1signer")),
      Msg("sign/MsgSignData", SignValue("aGVsbG8=", "evmos1signer")),
      Msg("sign/MsgSignData", SignValue("aGVsbG8=", "unknown1signer")) }
    \cup { Msg("cosmos-sdk/MsgVote", VoteValue(option)) : option \in -1..5 }

\* Elements with a recognized type tag whose payload does not decode.
BadElements ==
    { Msg("cosmos-sdk/MsgSend",
          JObj([to_address |-> JStr("cosmos1to"),
                amount |-> JArr(<<Coin("uatom", "1000000")>>)])),
      Msg("cosmos-sdk/MsgDelegate",
          JObj([delegator_address |-> JStr("cosmos1delegator"),
                validator_address |-> JNum(7)])),
      Msg("cosmos-sdk/MsgWithdrawDelegationReward", JNull),
      Msg("cosmos-sdk/MsgVote",
          JObj([proposal_id |-> JNum(12), voter |-> JStr("cosmos1voter")])),
      Msg("sign/MsgSignData", JObj([data |-> JStr("aGVsbG8=")])) }

\* Elements with an unknown or absent type tag, or that are no object.
OtherElements ==
    { JNull,
      JObj([value |-> SendValue(<<Coin("uatom", "1000000")>>)]),
      JObj([type |-> JNum(3), value |-> JNull]),
      Msg("cosmos-sdk/MsgSubmitProposal", JNull) }

Elements == GoodElements \cup BadElements \cup OtherElements

\* A few elements of each class, for the longer arrays.
CoreElements ==
    { Msg("cosmos-sdk/MsgSend", SendValue(<<Coin("uatom", "1000000")>>)),
      Msg("cosmos-sdk/MsgDelegate", StakeValue(JNull)),
      Msg("cosmos-sdk/MsgWithdrawDelegationReward", RewardValue),
      Msg("cosmos-sdk/MsgVote", VoteValue(2)),
      Msg("cosmos-sdk/MsgSend",
          JObj([to_address |-> JStr("cosmos1to"),
                amount |-> JArr(<<Coin("uatom", "1000000")>>)])),
      Msg("cosmos-sdk/MsgWithdrawDelegationReward", JNull),
      Msg("cosmos-sdk/MsgSubmitProposal", JNull),
      JNull }

\* Top-level inputs that are no array.
NonArrays == { JNull, JStr("tx"), JObj([msgs |-> JNull]) }

\* The arrays of elements of S of length at most n.
Arrays(S, n) == { JArr(a) : a \in UNION { [1..k -> S] : k \in 0..n } }

Inputs ==
    NonArrays \cup Arrays(Elements, MaxWide) \cup Arrays(CoreElements, MaxMsgs)

(***************************************************************************)
(* CosmosTxOverview::from_value as a state machine.                        *)
(***************************************************************************)
Init ==
    /\ msgs \in Inputs
    /\ pc = "start"
    /\ idx = 0
    /\ kind = <<>>
    /\ result = NoResult

\* Begin with a value that is no array taken for an empty message list.
BeginLenient ==
    /\ pc = "start"
    /\ kind' = <<>>
    /\ idx' = 0
    /\ IF AsArray(msgs).some
       THEN pc' = "loop" /\ result' = result
       ELSE pc' = "done" /\ result' = Ok(<<>>)
    /\ UNCHANGED msgs

\* let mut kind = Vec::new();
\* let msg_arr = msgs.as_array().ok_or(ParseTxError("empty msg"))?;
Begin ==
    /\ pc = "start"
    /\ kind' = <<>>
    /\ idx' = 0
    /\ IF AsArray(msgs).some
       THEN pc' = "loop" /\ result' = result
       ELSE pc' = "done" /\ result' = Err("ParseTxError: empty msg")
    /\ UNCHANGED msgs

\* The element the for loop is at.
Each == msgs.a[idx + 1]

\* The for loop is at an element that the match sends to the given arm.
AtArm(arm) ==
    /\ pc = "loop"
    /\ idx < Len(msgs.a)
    /\ ArmOf(Each) = arm

\* Apply with a failed decode swallowed: the loop goes on to the next element.
ApplySwallow(out) ==
    /\ CASE out.act = "push" ->
              /\ kind' = Append(kind, out.m)
              /\ idx' = idx + 1
              /\ UNCHANGED <<pc, result>>
         [] OTHER ->
              /\ idx' = idx + 1
              /\ UNCHANGED <<kind, pc, result>>
    /\ UNCHANGED msgs

\* Apply with the record inserted at the front of kind instead of pushed.
ApplyPrepend(out) ==
    /\ CASE out.act = "push" ->
              /\ kind' = <<out.m>> \o kind
              /\ idx' = idx + 1
              /\ UNCHANGED <<pc, result>>
         [] out.act = "skip" ->
              /\ idx' = idx + 1
              /\ UNCHANGED <<kind, pc, result>>
         [] out.act = "fail" ->
              /\ result' = Err(out.e)
              /\ pc' = "done"
              /\ UNCHANGED <<kind, idx>>
    /\ UNCHANGED msgs

\* Apply with the error kept but the loop going on, so that a later element
\* is still examined and the last outcome wins.
ApplyKeepGoing(out) ==
    /\ CASE out.act = "push" ->
              /\ kind' = Append(kind, out.m)
              /\ idx' = idx + 1
              /\ UNCHANGED <<pc, result>>
         [] out.act = "skip" ->
              /\ idx' = idx + 1
              /\ UNCHANGED <<kind, pc, result>>
         [] out.act = "fail" ->
              /\ result' = Err(out.e)
              /\ idx' = idx + 1
              /\ UNCHANGED <<kind, pc>>
    /\ UNCHANGED msgs

\* The effect of one pass of the loop: push and go on, go on, or return
\* the error at once (the ? operator).
Apply(out) ==
    /\ CASE out.act = "push" ->
              /\ kind' = Append(kind, out.m)
              /\ idx' = idx + 1
              /\ UNCHANGED <<pc, result>>
         [] out.act = "skip" ->
              /\ idx' = idx + 1
              /\ UNCHANGED <<kind, pc, result>>
         [] out.act = "fail" ->
              /\ result' = Err(out.e)
              /\ pc' = "done"
              /\ UNCHANGED <<kind, idx>>
    /\ UNCHANGED msgs

StepSend == AtArm("Send") /\ Apply(ArmSend(Each))

StepDelegate == AtArm("Delegate") /\ Apply(ArmDelegate(Each))

StepUndelegate == AtArm("Undelegate") /\ Apply(ArmUndelegate(Each))

StepRedelegate == AtArm("Redelegate") /\ Apply(ArmRedelegate(Each))

StepWithdrawReward == AtArm("WithdrawReward") /\ Apply(ArmWithdrawReward(Each))

StepTransfer == AtArm("Transfer") /\ Apply(ArmTransfer(Each))

StepVote == AtArm("Vote") /\ Apply(ArmVote(Each))

StepMessage == AtArm("Message") /\ Apply(ArmMessage(Each))

\* The _ => {} arm.
StepSkip == AtArm("Skip") /\ Apply(Skip)

\* Ok(kind) once the loop has consumed every element.
Return ==
    /\ pc = "loop"
    /\ idx = Len(msgs.a)
    /\ result' = Ok(kind)
    /\ pc' = "done"
    /\ UNCHANGED <<msgs, idx, kind>>

Next ==
    \/ Begin
    \/ StepSend
    \/ StepDelegate
    \/ StepUndelegate
    \/ StepRedelegate
    \/ StepWithdrawReward
    \/ StepTransfer
    \/ StepVote
    \/ StepMessage
    \/ StepSkip
    \/ Return

Spec == Init /\ [][Next]_vars

\* from_value as a function of its argument: the loop run to its end.
RECURSIVE RunLoop(_, _)
RunLoop(arr, acc) ==
    IF arr = <<>> THEN Ok(acc)
    ELSE LET out == ProcessEach(Head(arr))
         IN  CASE out.act = "push" -> RunLoop(Tail(arr), Append(acc, out.m))
               [] out.act = "skip" -> RunLoop(Tail(arr), acc)
               [] out.act = "fail" -> Err(out.e)

from_value(value) ==
    IF AsArray(value).some
    THEN RunLoop(AsArray(value).v, <<>>)
    ELSE Err("ParseTxError: empty msg")

\* The state is well formed.
TypeOK ==
    /\ msgs \in Inputs
    /\ pc \in {"start", "loop", "done"}
    /\ idx \in Nat
    /\ pc # "start" /\ msgs.t = "arr" => idx <= Len(msgs.a)
    /\ Len(kind) <= idx
    /\ (pc = "done") = (result # NoResult)

(***************************************************************************)
(* Properties.                                                             *)
(***************************************************************************)
\* from_value has returned, and its argument was an array.
DoneOnArray == pc = "done" /\ msgs.t = "arr"

\* The positions of the array holding an element of the set S.
Positions(S) == {i \in 1..Len(msgs.a) : msgs.a[i] \in S}

\* The element the loop consumed last, while it is still running or has
\* returned Ok (on a failure idx stays before the failing element).
LastEach == msgs.a[idx]

\* The loop has just pushed the record of a well-formed element of the arm.
JustPushed(arm) ==
    /\ pc # "start"
    /\ msgs.t = "arr"
    /\ idx >= 1
    /\ LastEach \in GoodElements
    /\ ArmOf(LastEach) = arm

\* C1: all-or-nothing.  Once from_value has returned on an array holding an
\* element with a recognized tag and a payload that does not decode, the
\* result is an error: the caller gets no records, in particular not the
\* records that were built from the elements before the malformed one.
C1_AllOrNothing ==
    (DoneOnArray /\ Positions(BadElements) # {})
        => (~result.ok /\ result # Ok(kind) /\ "v" \notin DOMAIN result)

\* C1 witness: a well-formed element was converted, the next one is
\* malformed, and the call returned an error.
C1_Witness ==
    /\ DoneOnArray
    /\ Len(msgs.a) >= 2
    /\ msgs.a[1] \in GoodElements
    /\ msgs.a[2] \in BadElements
    /\ Len(kind) = 1
    /\ ~result.ok

\* The overviews of the recognized, well-formed elements of arr, in order.
RECURSIVE OverviewsOf(_)
OverviewsOf(arr) ==
    IF arr = <<>> THEN <<>>
    ELSE IF Head(arr) \in GoodElements
         THEN <<ProcessEach(Head(arr)).m>> \o OverviewsOf(Tail(arr))
         ELSE OverviewsOf(Tail(arr))

\* C2: order preservation.  On an array without malformed elements the
\* result is Ok and holds exactly the overviews of the recognized elements
\* in input order: as many as there are recognized elements, the i-th being
\* the overview of the i-th recognized element.
C2_OrderPreserved ==
    (DoneOnArray /\ Positions(BadElements) = {})
        => /\ result.ok
           /\ Len(result.v) = Cardinality(Positions(GoodElements))
           /\ result.v = OverviewsOf(msgs.a)

\* C2 witness: two different recognized messages with an unrecognized one
\* between them, and the two overviews returned.
C2_Witness ==
    /\ DoneOnArray
    /\ Len(msgs.a) = 3
    /\ msgs.a[1] \in GoodElements
    /\ msgs.a[2] \in OtherElements
    /\ msgs.a[3] \in GoodElements
    /\ ArmOf(msgs.a[1]) # ArmOf(msgs.a[3])
    /\ result.ok
    /\ Len(result.v) = 2

\* C3: an element with an unknown or absent type tag, or that is no object,
\* is skipped: the pass over it appends nothing, moves on to the next
\* element and returns no error.
C3_UnknownSkipped ==
    [][(pc = "loop" /\ idx < Len(msgs.a) /\ Each \in OtherElements)
        => (kind' = kind /\ idx' = idx + 1 /\ pc' = "loop"
            /\ result' = NoResult)]_vars

\* C3 witness: a call that succeeded with fewer records than messages.
C3_Witness ==
    /\ DoneOnArray
    /\ Positions(OtherElements) # {}
    /\ result.ok
    /\ Len(result.v) >= 1
    /\ Len(result.v) < Len(msgs.a)

\* C4: when the argument is no array the call returns the ParseTxError
\* "empty msg" and no records; on the empty array it returns Ok with no
\* records.
C4_NotAnArray ==
    pc = "done" =>
        /\ msgs.t # "arr" => result = Err("ParseTxError: empty msg")
        /\ msgs = JArr(<<>>) => result = Ok(<<>>)

\* C4 witness: the call has returned the top-level error on a null argument.
C4_Witness ==
    /\ pc = "done"
    /\ msgs = JNull
    /\ result = Err("ParseTxError: empty msg")

\* The record the loop pushed last, and what it serializes to.
LastRecord == kind[Len(kind)]
LastSerialized == Serialize(LastRecord)

\* The element at which the call returned an error.
FailedEach == msgs.a[idx + 1]

\* The call returned an error from inside the loop.
FailedInLoop == DoneOnArray /\ ~result.ok

\* The labels a serialized record of each kind always has.
FixedLabels(variant) ==
    CASE variant = "Send" -> {"Method", "Value", "From", "To"}
      [] variant = "Delegate" -> {"Method", "From", "To"}
      [] variant = "Undelegate" -> {"Method", "To", "Validator"}
      [] variant = "Redelegate" -> {"Method", "To", "New Validator"}
      [] variant = "WithdrawReward" -> {"Method", "To", "Validator"}
      [] variant = "Transfer" -> {"Method", "From", "To"}
      [] variant = "Vote" -> {"Method", "Voter", "Proposal", "Voted"}
      [] variant = "Message" -> {"Method", "Network", "Signer", "Message", "Chain ID"}

\* The kinds whose Value entry is left out when the value is empty.
OptionalValue == {"Delegate", "Undelegate", "Redelegate", "Transfer"}

\* A serialized record has the labels of its kind and nothing else, but for
\* a non-empty Value on the kinds where Value is optional.
FieldSetOk(m) ==
    LET s == Serialize(m)
        labels == DOMAIN s
    IN  IF m.variant \in OptionalValue
        THEN /\ labels \ {"Value"} = FixedLabels(m.variant)
             /\ "Value" \in labels => s["Value"] # ""
        ELSE labels = FixedLabels(m.variant)

\* The element's payload has no amount (the key is missing or null).
AmountAbsent(each) == JIndex(JIndex(each, "value"), "amount") = JNull

\* C5: converting a well-formed message never fails and yields a record
\* with exactly the fields of its kind; a Delegate, Undelegate or
\* Redelegate without amount serializes without a "Value" entry (never
\* Value = ""), and a Withdraw Reward record never has one.
C5_FixedFieldSet ==
    /\ FailedInLoop => FailedEach \notin GoodElements
    /\ \A j \in 1..Len(kind) : FieldSetOk(kind[j])
    /\ \A arm \in {"Delegate", "Undelegate", "Redelegate"} :
          (JustPushed(arm) /\ AmountAbsent(LastEach))
              => "Value" \notin DOMAIN LastSerialized
    /\ JustPushed("WithdrawReward") => "Value" \notin DOMAIN LastSerialized

\* C5 witness: a Delegate without amount was converted and its record
\* serializes to Method, From and To only.
C5_Witness ==
    /\ JustPushed("Delegate")
    /\ AmountAbsent(LastEach)
    /\ DOMAIN LastSerialized = {"Method", "From", "To"}

\* The vote option and proposal id of a Vote element.
OptionOf(each) == JIndex(JIndex(each, "value"), "option").n
ProposalOf(each) == JIndex(JIndex(each, "value"), "proposal_id").n

\* C6: a Vote renders option 0 as UNSPECIFIED, 1 as YES, 2 as ABSTAIN, 3 as
\* NO and 4 as NO_WITH_VETO and any other option as the empty string, the
\* proposal as "#" and its id, and the conversion never fails.
C6_VoteTable ==
    /\ JustPushed("Vote") =>
          /\ LastRecord.variant = "Vote"
          /\ LastRecord.o.voted =
                (IF OptionOf(LastEach) = 0 THEN "UNSPECIFIED"
                 ELSE IF OptionOf(LastEach) = 1 THEN "YES"
                 ELSE IF OptionOf(LastEach) = 2 THEN "ABSTAIN"
                 ELSE IF OptionOf(LastEach) = 3 THEN "NO"
                 ELSE IF OptionOf(LastEach) = 4 THEN "NO_WITH_VETO"
                 ELSE "")
          /\ LastRecord.o.proposal = "#" \o ToString(ProposalOf(LastEach))
          /\ LastSerialized["Proposal"] = "#12"
    /\ FailedInLoop =>
          ~(FailedEach \in GoodElements /\ ArmOf(FailedEach) = "Vote")

\* C6 witness: a vote with the out-of-range option 5 was converted and
\* renders Voted as the empty string.
C6_Witness ==
    /\ JustPushed("Vote")
    /\ OptionOf(LastEach) = 5
    /\ LastSerialized["Voted"] = ""

\* The data and signer of a SignData element.
DataOf(each) == JIndex(JIndex(each, "value"), "data").s
SignerOf(each) == JIndex(JIndex(each, "value"), "signer").s

\* The payload base64-decodes to valid UTF-8 text that is not CJK.
ReadableText(data) ==
    /\ base64_decode(data).ok
    /\ from_utf8(base64_decode(data).v).ok
    /\ ~is_cjk(from_utf8(base64_decode(data).v).v)

\* C7: the SignData conversion never fails on the payload text; Message is
\* the decoded text exactly when the payload base64-decodes to valid UTF-8
\* that is not CJK, and the original payload string in the other cases.
C7_SignDataMessage ==
    /\ JustPushed("Message") =>
          /\ LastRecord.variant = "Message"
          /\ ReadableText(DataOf(LastEach)) =>
                LastRecord.o.message = from_utf8(base64_decode(DataOf(LastEach)).v).v
          /\ ~ReadableText(DataOf(LastEach)) =>
                LastRecord.o.message = DataOf(LastEach)
          /\ DataOf(LastEach) = "aGVsbG8=" <=> LastSerialized["Message"] = "hello"
    /\ FailedInLoop =>
          ~(FailedEach \in GoodElements /\ ArmOf(FailedEach) = "Message")

\* C7 witness: a payload that decodes to CJK text was converted and Message
\* is the payload as given.
C7_Witness ==
    /\ JustPushed("Message")
    /\ base64_decode(DataOf(LastEach)).ok
    /\ from_utf8(base64_decode(DataOf(LastEach)).v).ok
    /\ is_cjk(from_utf8(base64_decode(DataOf(LastEach)).v).v)
    /\ LastSerialized["Message"] = DataOf(LastEach)

\* The tag with the two spellings of the withdraw-reward type exchanged.
OtherSpelling(tag) ==
    CASE tag = "cosmos-sdk/MsgWithdrawDelegatorReward"
            -> "cosmos-sdk/MsgWithdrawDelegationReward"
      [] tag = "cosmos-sdk/MsgWithdrawDelegationReward"
            -> "cosmos-sdk/MsgWithdrawDelegatorReward"
      [] OTHER -> tag

\* The argument with the spelling of every withdraw-reward tag exchanged.
SwapSpelling(value) ==
    IF value.t # "arr" THEN value
    ELSE JArr([i \in 1..Len(value.a) |->
                LET each == value.a[i]
                IN  IF AsStr(JIndex(each, "type")).some
                    THEN JObj([each.o EXCEPT
                                 !["type"] = JStr(OtherSpelling(each.o["type"].s))])
                    ELSE each])

\* C8: both spellings of the withdraw-reward tag reach the same handler:
\* what the call returned is what from_value returns on the same argument
\* with each withdraw-reward tag spelled the other way.
C8_SpellingsAgree ==
    pc = "done" => result = from_value(SwapSpelling(msgs))

\* C8 witness: an element tagged MsgWithdrawDelegationReward was converted
\* to a Withdraw Reward record.
C8_Witness ==
    /\ JustPushed("WithdrawReward")
    /\ JIndex(LastEach, "type") = JStr("cosmos-sdk/MsgWithdrawDelegationReward")
    /\ SwapSpelling(msgs) # msgs
    /\ LastSerialized["Method"] = "Withdraw Reward"

\* C9: in a SignData record Chain ID is the chain id the resolver gives for
\* the signer, Network is the name the resolver gives for that chain id and
\* "Cosmos Hub" when it has none, and the conversion never fails.
C9_ChainResolution ==
    /\ JustPushed("Message") =>
          LET chain == get_chain_id_by_address(SignerOf(LastEach))
              name == get_network_by_chain_id(chain)
          IN  /\ LastSerialized["Chain ID"] = chain
              /\ name.some => LastSerialized["Network"] = name.v
              /\ ~name.some => LastSerialized["Network"] = "Cosmos Hub"
              /\ LastSerialized["Signer"] = SignerOf(LastEach)
    /\ FailedInLoop =>
          ~(FailedEach \in GoodElements /\ ArmOf(FailedEach) = "Message")

\* C9 witness: a SignData whose signer's chain has no network name was
\* converted and shows the default network.
C9_Witness ==
    /\ JustPushed("Message")
    /\ ~get_network_by_chain_id(get_chain_id_by_address(SignerOf(LastEach))).some
    /\ LastSerialized["Network"] = "Cosmos Hub"
    /\ LastSerialized["Chain ID"] = "evmos_9001-2"

\* The first position of the array holding a malformed element.
FirstBad == CHOOSE i \in Positions(BadElements) :
                \A j \in Positions(BadElements) : i <= j

\* C10: the call fails exactly when its argument is no array or some
\* element with a recognized tag has a payload that does not decode; the
\* error is that of the first such element, the loop stopped there, and
\* elements without a recognized tag never make the call fail.
C10_FailsIffFirstBad ==
    pc = "done" =>
        /\ ~result.ok <=> (msgs.t # "arr" \/ Positions(BadElements) # {})
        /\ (msgs.t = "arr" /\ Positions(BadElements) # {}) =>
              /\ result = Err(ProcessEach(msgs.a[FirstBad]).e)
              /\ idx = FirstBad - 1
              /\ Len(kind) = Cardinality({i \in Positions(GoodElements) : i < FirstBad})

\* C10 witness: two malformed elements with different decode errors, and
\* the call returned the error of the first without reaching the second.
C10_Witness ==
    /\ DoneOnArray
    /\ Cardinality(Positions(BadElements)) >= 2
    /\ \E i \in Positions(BadElements) :
          ProcessEach(msgs.a[i]).e # ProcessEach(msgs.a[FirstBad]).e
    /\ Positions(OtherElements) # {}
    /\ result = Err(ProcessEach(msgs.a[FirstBad]).e)
    /\ idx = FirstBad - 1

====
